---- MODULE Spec2Model ----
(***************************************************************************)
(* Model of the remote client plugin (spyder/plugins/remoteclient/plugin.py)*)
(*                                                                         *)
(* The plugin keeps a dictionary config_id -> SpyderRemoteClient and       *)
(* forwards every server and kernel command to the client of the given id. *)
(* Commands decorated with AsyncDispatcher.dispatch() are coroutines that  *)
(* run on one background loop: the call only submits the coroutine, the    *)
(* coroutine looks its client up when it starts, suspends at its single    *)
(* await, and finishes when the awaited client method returns.             *)
(*                                                                         *)
(* SpyderRemoteClient and AsyncDispatcher are not part of plugin.py; their  *)
(* behaviour is taken from the design document (sections 4.1 to 4.3).      *)
(***************************************************************************)
EXTENDS Integers, Sequences, FiniteSets, TLC

\* ---- Bounds
MaxTasks == 3      \* coroutines dispatched to the loop in one behaviour
MaxClients == 2    \* SpyderRemoteClient objects constructed in one behaviour
MaxKernels == 2    \* kernel ids handed out by the remote servers

ConfigIds == {"A", "B"}
OptionSets == {"o1", "o2"}

VARIABLES
    remote_clients,  \* self._remote_clients: config_id -> index into clients
    clients,         \* every SpyderRemoteClient constructed so far
    tasks,           \* coroutines submitted to the background loop
    emitted,         \* signals emitted by the latest step, oldest first
    nextKernel,      \* next kernel id a remote server hands out
    closing,         \* on_close: ids still to visit and the task waited for
    returned         \* value returned by the last synchronous call

vars == <<remote_clients, clients, tasks, emitted, nextKernel, closing,
          returned>>

\* ---- Python values
None == [kind |-> "None", id |-> 0, ids |-> {}]
True == [kind |-> "True", id |-> 0, ids |-> {}]
False == [kind |-> "False", id |-> 0, ids |-> {}]
EmptyDict == [kind |-> "dict", id |-> 0, ids |-> {}]
Desc(k) == [kind |-> "desc", id |-> k, ids |-> {}]
KernelIdOf(k) == [kind |-> "str", id |-> k, ids |-> {}]
KernelList(S) == [kind |-> "list", id |-> 0, ids |-> S]
ClientRef(c) == [kind |-> "client", id |-> c, ids |-> {}]
Future(t) == [kind |-> "future", id |-> t, ids |-> {}]
Keys(S) == [kind |-> "keys", id |-> 0, ids |-> S]

\* truth value of a Python object
Falsy(v) ==
    \/ v.kind \in {"None", "False", "dict"}
    \/ v.kind = "list" /\ v.ids = {}

\* the value emitted as it is, without `or {}`
AsIs(v) == v

\* the expression `v or {}`
OrEmpty(v) == IF Falsy(v) THEN EmptyDict ELSE v

Loaded == DOMAIN remote_clients

\* ---- Signals
Sig(name, cfg, args) == [sig |-> name, config_id |-> cfg, args |-> args]

StatusChanged(cl, state) ==
    Sig("sig_connection_status_changed", cl.config_id, <<state>>)

Established(cl) == Sig("sig_connection_established", cl.config_id, <<>>)

Lost(cl) == Sig("sig_connection_lost", cl.config_id, <<>>)

\* ---- SpyderRemoteClient
States == {"Unconnected", "Connected", "Installed", "Running", "Stopped"}

NewClient(cfg, options) ==
    [config_id |-> cfg, options |-> options, state |-> "Unconnected",
     transport |-> "none", closed |-> FALSE, kernels |-> {}, stale |-> {}]

Result(cl, val, err, events) ==
    [client |-> cl, val |-> val, err |-> err, events |-> events]

\* the events of a change of the client from old to new
Events(old, new) ==
    (IF old.transport # "open" /\ new.transport = "open"
     THEN <<Established(new)>> ELSE <<>>)
    \o (IF old.transport = "open" /\ new.transport # "open"
        THEN <<Lost(new)>> ELSE <<>>)
    \o (IF old.state # new.state
        THEN <<StatusChanged(new, new.state)>> ELSE <<>>)

\* every kernel session of the client becomes stale
Invalidate(cl) ==
    [cl EXCEPT !.kernels = {}, !.stale = cl.stale \cup cl.kernels]

\* the state moves to s; leaving Running invalidates the kernel sessions
MoveTo(cl, s) ==
    IF cl.state = "Running" /\ s # "Running"
    THEN [Invalidate(cl) EXCEPT !.state = s]
    ELSE [cl EXCEPT !.state = s]

\* the transport drops: the client falls back to Unconnected
TransportLoss(cl, val) ==
    LET new == [MoveTo(cl, "Unconnected") EXCEPT !.transport = "none"]
    IN Result(new, val, "TransportFailure", Events(cl, new))

\* an operation issued after teardown
Refused(cl, val) == Result(cl, val, "Closed", <<>>)

connect_and_install_remote_server(cl, net) ==
    IF cl.closed THEN Refused(cl, False)
    ELSE IF net = "lost" THEN TransportLoss(cl, False)
    ELSE IF net # "ok" THEN Result(cl, False, "InstallFailed", <<>>)
    ELSE IF cl.state \in {"Unconnected", "Connected"}
    THEN LET new == [MoveTo(cl, "Installed") EXCEPT !.transport = "open"]
         IN Result(new, True, "", Events(cl, new))
    ELSE LET new == [cl EXCEPT !.transport = "open"]
         IN Result(new, True, "", Events(cl, new))

connect_and_start_server(cl, net) ==
    IF cl.closed THEN Refused(cl, False)
    ELSE IF net = "lost" THEN TransportLoss(cl, False)
    ELSE IF net # "ok" THEN Result(cl, False, "ServerUnavailable", <<>>)
    ELSE LET new == [MoveTo(cl, "Running") EXCEPT !.transport = "open"]
         IN Result(new, True, "", Events(cl, new))

client_stop_remote_server(cl, net) ==
    IF cl.closed THEN Refused(cl, False)
    ELSE IF cl.state # "Running" THEN Result(cl, True, "", <<>>)
    ELSE IF net = "lost" THEN TransportLoss(cl, False)
    ELSE IF net # "ok" THEN Result(cl, False, "Timeout", <<>>)
    ELSE LET new == MoveTo(cl, "Stopped")
         IN Result(new, True, "", Events(cl, new))

connect_and_ensure_server(cl, net) == connect_and_start_server(cl, net)

\* only the local transport session is torn down
close(cl) ==
    LET new == [MoveTo(cl, "Unconnected") EXCEPT
                   !.transport = "closed", !.closed = TRUE]
    IN Result(new, None, "", Events(cl, new))

\* a kernel request on a server that is not closed and whose network answers
KernelCall(cl, net, val, answer) ==
    IF cl.closed THEN Refused(cl, val)
    ELSE IF net = "lost" THEN TransportLoss(cl, val)
    ELSE IF net # "ok" THEN Result(cl, val, "Timeout", <<>>)
    ELSE answer

\* the local record of kernel k is dropped
Evict(cl, k) == [cl EXCEPT !.kernels = @ \ {k}, !.stale = @ \ {k}]

Known(cl, k) == cl.state = "Running" /\ k \in cl.kernels

client_get_kernels(cl, net) ==
    KernelCall(cl, net, KernelList({}),
        IF cl.state = "Running"
        THEN Result(cl, KernelList(cl.kernels), "", <<>>)
        ELSE Result(cl, KernelList({}), "NotRunning", <<>>))

client_get_kernel_info(cl, k, net) ==
    KernelCall(cl, net, None,
        IF Known(cl, k) THEN Result(cl, Desc(k), "", <<>>)
        ELSE Result(Evict(cl, k), None, "KernelNotFound", <<>>))

client_terminate_kernel(cl, k, net) ==
    KernelCall(cl, net, None,
        IF Known(cl, k) THEN Result(Evict(cl, k), Desc(k), "", <<>>)
        ELSE Result(Evict(cl, k), None, "KernelNotFound", <<>>))

\* ensure the server runs, then ask it for a kernel; k is the id it hands out
start_new_kernel_ensure_server(cl, k, net) ==
    LET ensured == connect_and_ensure_server(cl, IF net = "reject" THEN "ok" ELSE net)
        srv == ensured.client
    IN IF cl.closed THEN Refused(cl, None)
       ELSE IF ensured.err # ""
       THEN Result(srv, None, "ServerUnavailable", ensured.events)
       ELSE IF net = "reject"
       THEN Result(srv, None, "KernelStartFailed", ensured.events)
       ELSE Result([srv EXCEPT !.kernels = @ \cup {k}], Desc(k), "",
                   ensured.events)

client_restart_kernel(cl, k, net) ==
    KernelCall(cl, net, False,
        IF Known(cl, k) THEN Result(cl, True, "", <<>>)
        ELSE Result(cl, False, "KernelNotFound", <<>>))

client_interrupt_kernel(cl, k, net) ==
    KernelCall(cl, net, False,
        IF Known(cl, k) THEN Result(cl, True, "", <<>>)
        ELSE Result(cl, False, "KernelNotFound", <<>>))

\* ---- AsyncDispatcher
NewTask(op, cfg, kid, client, by) ==
    [op |-> op, config_id |-> cfg, kernel_id |-> kid, pc |-> "queued",
     client |-> client, ret |-> None, err |-> "", exc |-> "", by |-> by]

\* the caller of the plugin is not inside on_close
Idle == closing.todo = {} /\ closing.wait = 0

\* AsyncDispatcher.dispatch(): the coroutine is submitted to the loop and
\* the call returns its future at once
Submit(op, cfg, kid) ==
    /\ Idle
    /\ Len(tasks) < MaxTasks
    /\ tasks' = Append(tasks, NewTask(op, cfg, kid, 0, "call"))
    /\ returned' = Future(Len(tasks) + 1)
    /\ emitted' = <<>>
    /\ UNCHANGED <<remote_clients, clients, nextKernel, closing>>

\* the future of a finished coroutine: the frame is gone, the result stays
Finished(task, ret, err, exc) ==
    [task EXCEPT !.pc = "done", !.config_id = "", !.kernel_id = 0,
                 !.client = 0, !.ret = ret, !.err = err, !.exc = exc]

\* `if config_id in self._remote_clients` is false: the coroutine returns
CoSkip(t) ==
    /\ tasks[t].pc = "queued"
    /\ tasks[t].config_id \notin Loaded
    /\ tasks' = [tasks EXCEPT ![t] = Finished(@, None, "", "")]
    /\ emitted' = <<>>
    /\ UNCHANGED <<remote_clients, clients, nextKernel, closing,
                   returned>>

\* the coroutine keeping the client the id was bound to first
CoResolve_first(t) ==
    /\ tasks[t].pc = "queued"
    /\ tasks[t].config_id \in Loaded
    /\ tasks' = [tasks EXCEPT
          ![t].pc = "await",
          ![t].client = CHOOSE c \in 1..Len(clients) :
                           /\ clients[c].config_id = tasks[t].config_id
                           /\ \A d \in 1..(c - 1) :
                                 clients[d].config_id # tasks[t].config_id]
    /\ emitted' = <<>>
    /\ UNCHANGED <<remote_clients, clients, nextKernel, closing,
                   returned>>

\* the coroutine reads its client and suspends in the awaited call
CoResolve(t) ==
    /\ tasks[t].pc = "queued"
    /\ tasks[t].config_id \in Loaded
    /\ tasks' = [tasks EXCEPT ![t].pc = "await",
                              ![t].client = remote_clients[tasks[t].config_id]]
    /\ emitted' = <<>>
    /\ UNCHANGED <<remote_clients, clients, nextKernel, closing,
                   returned>>

Outcomes == {"ok", "fail", "lost"}

\* the awaited call returned out; the coroutine emits signals and either
\* returns ret or raises exc
CoFinish(t, net, out, signals, ret, exc) ==
    /\ tasks[t].pc = "await"
    /\ clients' = [clients EXCEPT ![tasks[t].client] = out.client]
    /\ emitted' = out.events \o signals
    /\ tasks' = [tasks EXCEPT ![t] = Finished(@, ret, out.err, exc)]
    /\ UNCHANGED <<remote_clients, closing, returned>>

Awaited(t) == clients[tasks[t].client]

IsTask(t, op) == t \in 1..Len(tasks) /\ tasks[t].op = op

\* ---- RemoteClient: remote server methods
get_remote_server(cfg) ==
    /\ Idle
    /\ returned' = IF cfg \in Loaded THEN ClientRef(remote_clients[cfg])
                   ELSE None
    /\ emitted' = <<>>
    /\ UNCHANGED <<remote_clients, clients, tasks, nextKernel, closing>>

\* _install_remote_server awaiting the start method of the client
install_remote_server_starts(t) ==
    /\ IsTask(t, "_install_remote_server")
    /\ \/ CoSkip(t)
       \/ CoResolve(t)
       \/ \E net \in Outcomes :
             /\ CoFinish(t, net, connect_and_start_server(Awaited(t), net),
                         <<>>, None, "")
             /\ UNCHANGED nextKernel

install_remote_server(t) ==
    /\ IsTask(t, "_install_remote_server")
    /\ \/ CoSkip(t)
       \/ CoResolve(t)
       \/ \E net \in Outcomes :
             /\ CoFinish(t, net,
                    connect_and_install_remote_server(Awaited(t), net),
                    <<>>, None, "")
             /\ UNCHANGED nextKernel

\* start_remote_server awaiting the install method of the client
start_remote_server_installs(t) ==
    /\ IsTask(t, "start_remote_server")
    /\ \/ CoSkip(t)
       \/ CoResolve(t)
       \/ \E net \in Outcomes :
             /\ CoFinish(t, net,
                    connect_and_install_remote_server(Awaited(t), net),
                    <<>>, None, "")
             /\ UNCHANGED nextKernel

start_remote_server(t) ==
    /\ IsTask(t, "start_remote_server")
    /\ \/ CoSkip(t)
       \/ CoResolve(t)
       \/ \E net \in Outcomes :
             /\ CoFinish(t, net, connect_and_start_server(Awaited(t), net),
                         <<>>, None, "")
             /\ UNCHANGED nextKernel

\* stop_remote_server awaiting the start method of the client
stop_remote_server_starts(t) ==
    /\ IsTask(t, "stop_remote_server")
    /\ \/ CoSkip(t)
       \/ CoResolve(t)
       \/ \E net \in Outcomes :
             /\ CoFinish(t, net, connect_and_start_server(Awaited(t), net),
                         <<>>, None, "")
             /\ UNCHANGED nextKernel

stop_remote_server(t) ==
    /\ IsTask(t, "stop_remote_server")
    /\ \/ CoSkip(t)
       \/ CoResolve(t)
       \/ \E net \in Outcomes :
             /\ CoFinish(t, net, client_stop_remote_server(Awaited(t), net),
                         <<>>, None, "")
             /\ UNCHANGED nextKernel

ensure_remote_server(t) ==
    /\ IsTask(t, "ensure_remote_server")
    /\ \/ CoSkip(t)
       \/ CoResolve(t)
       \/ \E net \in Outcomes :
             /\ CoFinish(t, net, connect_and_ensure_server(Awaited(t), net),
                         <<>>, None, "")
             /\ UNCHANGED nextKernel

\* two dispatches, neither awaited: the call returns with both queued
restart_remote_server(cfg) ==
    /\ Idle
    /\ Len(tasks) + 2 <= MaxTasks
    /\ tasks' = tasks \o
          <<NewTask("stop_remote_server", cfg, 0, 0, "restart"),
            NewTask("start_remote_server", cfg, 0, 0, "restart")>>
    /\ returned' = None
    /\ emitted' = <<>>
    /\ UNCHANGED <<remote_clients, clients, nextKernel, closing>>

\* ---- RemoteClient: configuration methods
load_client(cfg, options) ==
    /\ Idle
    /\ Len(clients) < MaxClients
    /\ clients' = Append(clients, NewClient(cfg, options))
    /\ remote_clients' = (cfg :> (Len(clients) + 1)) @@ remote_clients
    /\ returned' = None
    /\ emitted' = <<>>
    /\ UNCHANGED <<tasks, nextKernel, closing>>

\* the stored options of a configuration id
load_conf(cfg) == IF cfg = "A" THEN "o1" ELSE "o2"

load_client_from_id(cfg) == load_client(cfg, load_conf(cfg))

get_loaded_servers ==
    /\ Idle
    /\ returned' = Keys(Loaded)
    /\ emitted' = <<>>
    /\ UNCHANGED <<remote_clients, clients, tasks, nextKernel, closing>>

\* ---- RemoteClient: kernel methods
\* get_kernels emitting `kernels_list or {}` like its siblings
get_kernels_or_empty(t) ==
    /\ IsTask(t, "get_kernels")
    /\ \/ CoSkip(t)
       \/ CoResolve(t)
       \/ \E net \in Outcomes :
             LET out == client_get_kernels(Awaited(t), net)
             IN /\ CoFinish(t, net, out,
                       <<Sig("sig_kernel_list", tasks[t].config_id,
                             <<OrEmpty(out.val)>>)>>, None, "")
                /\ UNCHANGED nextKernel

get_kernels(t) ==
    /\ IsTask(t, "get_kernels")
    /\ \/ CoSkip(t)
       \/ CoResolve(t)
       \/ \E net \in Outcomes :
             LET out == client_get_kernels(Awaited(t), net)
             IN /\ CoFinish(t, net, out,
                       <<Sig("sig_kernel_list", tasks[t].config_id,
                             <<out.val>>)>>, None, "")
                /\ UNCHANGED nextKernel

get_kernel_info(t) ==
    /\ IsTask(t, "get_kernel_info")
    /\ \/ CoSkip(t)
       \/ CoResolve(t)
       \/ \E net \in Outcomes :
             LET out == client_get_kernel_info(Awaited(t),
                                               tasks[t].kernel_id, net)
             IN /\ CoFinish(t, net, out,
                       <<Sig("sig_kernel_info", tasks[t].config_id,
                             <<OrEmpty(out.val)>>)>>, None, "")
                /\ UNCHANGED nextKernel

\* terminate_kernel emitting outside of the membership test
terminate_kernel_emits_always(t) ==
    /\ IsTask(t, "terminate_kernel")
    /\ \/ /\ tasks[t].pc = "queued"
          /\ tasks[t].config_id \notin Loaded
          /\ tasks' = [tasks EXCEPT ![t] = Finished(@, None, "", "")]
          /\ emitted' = <<Sig("sig_kernel_terminated", tasks[t].config_id,
                              <<EmptyDict>>)>>
          /\ UNCHANGED <<remote_clients, clients, nextKernel, closing,
                         returned>>
       \/ CoResolve(t)
       \/ \E net \in Outcomes :
             LET out == client_terminate_kernel(Awaited(t),
                                                tasks[t].kernel_id, net)
             IN /\ CoFinish(t, net, out,
                       <<Sig("sig_kernel_terminated", tasks[t].config_id,
                             <<OrEmpty(out.val)>>)>>, None, "")
                /\ UNCHANGED nextKernel

terminate_kernel(t) ==
    /\ IsTask(t, "terminate_kernel")
    /\ \/ CoSkip(t)
       \/ CoResolve(t)
       \/ \E net \in Outcomes :
             LET out == client_terminate_kernel(Awaited(t),
                                                tasks[t].kernel_id, net)
             IN /\ CoFinish(t, net, out,
                       <<Sig("sig_kernel_terminated", tasks[t].config_id,
                             <<OrEmpty(out.val)>>)>>, None, "")
                /\ UNCHANGED nextKernel

\* kernel_info['id'] raises TypeError when the client returned None
start_new_kernel(t) ==
    /\ IsTask(t, "start_new_kernel")
    /\ \/ CoSkip(t)
       \/ CoResolve(t)
       \/ \E net \in Outcomes \cup {"reject"} :
             LET out == start_new_kernel_ensure_server(Awaited(t),
                                                       nextKernel, net)
             IN /\ tasks[t].pc = "await"
                /\ out.err = "" => nextKernel <= MaxKernels
                /\ IF out.val = None
                   THEN CoFinish(t, net, out, <<>>, None, "TypeError")
                   ELSE CoFinish(t, net, out,
                            <<Sig("sig_kernel_started", tasks[t].config_id,
                                  <<OrEmpty(KernelIdOf(out.val.id))>>)>>,
                            out.val, "")
                /\ nextKernel' = IF out.err = "" THEN nextKernel + 1
                                 ELSE nextKernel

restart_kernel(t) ==
    /\ IsTask(t, "restart_kernel")
    /\ \/ CoSkip(t)
       \/ CoResolve(t)
       \/ \E net \in Outcomes :
             LET out == client_restart_kernel(Awaited(t),
                                              tasks[t].kernel_id, net)
             IN /\ CoFinish(t, net, out,
                       <<Sig("sig_kernel_started", tasks[t].config_id,
                             <<OrEmpty(KernelIdOf(tasks[t].kernel_id))>>)>>,
                       out.val, "")
                /\ UNCHANGED nextKernel

\* interrupt_kernel awaiting the terminate method of the client
interrupt_kernel_terminates(t) ==
    /\ IsTask(t, "interrupt_kernel")
    /\ \/ CoSkip(t)
       \/ CoResolve(t)
       \/ \E net \in Outcomes :
             LET out == client_terminate_kernel(Awaited(t),
                                                tasks[t].kernel_id, net)
             IN /\ CoFinish(t, net, out, <<>>, out.val, "")
                /\ UNCHANGED nextKernel

interrupt_kernel(t) ==
    /\ IsTask(t, "interrupt_kernel")
    /\ \/ CoSkip(t)
       \/ CoResolve(t)
       \/ \E net \in Outcomes :
             LET out == client_interrupt_kernel(Awaited(t),
                                                tasks[t].kernel_id, net)
             IN /\ CoFinish(t, net, out, <<>>, out.val, "")
                /\ UNCHANGED nextKernel

\* ---- RemoteClient.on_close
\* `AsyncDispatcher(client.close, early_return=False)()` submits the close of
\* one client and waits for its result before the loop goes on
on_close_begin ==
    /\ Idle
    /\ Loaded # {}
    /\ Len(tasks) + Cardinality(Loaded) <= MaxTasks
    /\ closing' = [todo |-> Loaded, wait |-> 0]
    /\ emitted' = <<>>
    /\ UNCHANGED <<remote_clients, clients, tasks, nextKernel,
                   returned>>

\* on_close dispatching with early_return=True: no wait for the result
on_close_dispatch_early ==
    /\ closing.wait = 0
    /\ \E cfg \in closing.todo :
          /\ tasks' = Append(tasks, NewTask("close", cfg, 0,
                                            remote_clients[cfg], "on_close"))
          /\ closing' = [todo |-> closing.todo \ {cfg}, wait |-> 0]
    /\ emitted' = <<>>
    /\ UNCHANGED <<remote_clients, clients, nextKernel, returned>>

on_close_dispatch ==
    /\ closing.wait = 0
    /\ \E cfg \in closing.todo :
          /\ tasks' = Append(tasks, NewTask("close", cfg, 0,
                                            remote_clients[cfg], "on_close"))
          /\ closing' = [todo |-> closing.todo \ {cfg},
                         wait |-> Len(tasks) + 1]
    /\ emitted' = <<>>
    /\ UNCHANGED <<remote_clients, clients, nextKernel, returned>>

\* on_close dropping the entries once the last client is closed
on_close_wait_forgets ==
    /\ closing.wait # 0
    /\ tasks[closing.wait].pc = "done"
    /\ closing' = [closing EXCEPT !.wait = 0]
    /\ remote_clients' = IF closing.todo = {} THEN <<>> ELSE remote_clients
    /\ returned' = None
    /\ emitted' = <<>>
    /\ UNCHANGED <<clients, tasks, nextKernel>>

on_close_wait ==
    /\ closing.wait # 0
    /\ tasks[closing.wait].pc = "done"
    /\ closing' = [closing EXCEPT !.wait = 0]
    /\ returned' = None
    /\ emitted' = <<>>
    /\ UNCHANGED <<remote_clients, clients, tasks, nextKernel>>

on_close == on_close_begin \/ on_close_dispatch \/ on_close_wait

\* the coroutine client.close() of on_close
client_close(t) ==
    /\ IsTask(t, "close")
    /\ tasks[t].pc = "queued"
    /\ LET out == close(Awaited(t))
       IN /\ clients' = [clients EXCEPT ![tasks[t].client] = out.client]
          /\ emitted' = out.events
          /\ tasks' = [tasks EXCEPT ![t] = Finished(@, out.val, "", "")]
    /\ UNCHANGED <<remote_clients, nextKernel, closing, returned>>

\* ---- Specifications
Init ==
    /\ remote_clients = <<>>
    /\ clients = <<>>
    /\ tasks = <<>>
    /\ emitted = <<>>
    /\ nextKernel = 1
    /\ closing = [todo |-> {}, wait |-> 0]
    /\ returned = None

ServerOps == {"_install_remote_server", "start_remote_server",
              "stop_remote_server", "ensure_remote_server"}

KernelOps == {"get_kernel_info", "terminate_kernel", "restart_kernel",
              "interrupt_kernel"}

KernelIds == 1..MaxKernels

TaskIds == 1..Len(tasks)

Next ==
    \/ \E cfg \in ConfigIds : get_remote_server(cfg)
    \/ \E cfg \in ConfigIds, op \in ServerOps : Submit(op, cfg, 0)
    \/ \E cfg \in ConfigIds : restart_remote_server(cfg)
    \/ \E cfg \in ConfigIds, options \in OptionSets : load_client(cfg, options)
    \/ \E cfg \in ConfigIds : load_client_from_id(cfg)
    \/ get_loaded_servers
    \/ \E cfg \in ConfigIds : Submit("get_kernels", cfg, 0)
    \/ \E cfg \in ConfigIds : Submit("start_new_kernel", cfg, 0)
    \/ \E cfg \in ConfigIds, op \in KernelOps, k \in KernelIds :
          Submit(op, cfg, k)
    \/ on_close
    \/ \E t \in TaskIds : install_remote_server(t)
    \/ \E t \in TaskIds : start_remote_server(t)
    \/ \E t \in TaskIds : stop_remote_server(t)
    \/ \E t \in TaskIds : ensure_remote_server(t)
    \/ \E t \in TaskIds : get_kernels(t)
    \/ \E t \in TaskIds : get_kernel_info(t)
    \/ \E t \in TaskIds : terminate_kernel(t)
    \/ \E t \in TaskIds : start_new_kernel(t)
    \/ \E t \in TaskIds : restart_kernel(t)
    \/ \E t \in TaskIds : interrupt_kernel(t)
    \/ \E t \in TaskIds : client_close(t)

Spec == Init /\ [][Next]_vars

\* the state after load_client_from_id("A")
InitLoaded ==
    /\ remote_clients = ("A" :> 1)
    /\ clients = <<NewClient("A", load_conf("A"))>>
    /\ tasks = <<>>
    /\ emitted = <<>>
    /\ nextKernel = 1
    /\ closing = [todo |-> {}, wait |-> 0]
    /\ returned = None

\* server commands on a loaded id ("A") and on an id never loaded ("B")
NextServer ==
    \/ \E cfg \in ConfigIds, op \in ServerOps : Submit(op, cfg, 0)
    \/ \E cfg \in ConfigIds : restart_remote_server(cfg)
    \/ \E t \in TaskIds : install_remote_server(t)
    \/ \E t \in TaskIds : start_remote_server(t)
    \/ \E t \in TaskIds : stop_remote_server(t)
    \/ \E t \in TaskIds : ensure_remote_server(t)

SpecServer == InitLoaded /\ [][NextServer]_vars

\* the state after load_client_from_id("A") and one start_new_kernel("A")
\* that ran to completion: the server of "A" runs kernel 1
InitKernel ==
    LET out == start_new_kernel_ensure_server(
                   NewClient("A", load_conf("A")), 1, "ok")
    IN /\ remote_clients = ("A" :> 1)
       /\ clients = <<out.client>>
       /\ tasks = <<Finished(NewTask("start_new_kernel", "A", 0, 0, "call"),
                            out.val, "", "")>>
       /\ emitted = out.events \o
             <<Sig("sig_kernel_started", "A", <<KernelIdOf(1)>>)>>
       /\ nextKernel = 2
       /\ closing = [todo |-> {}, wait |-> 0]
       /\ returned = Future(1)

\* kernel commands and stop on the loaded id
NextKernel ==
    \/ Submit("stop_remote_server", "A", 0)
    \/ Submit("get_kernels", "A", 0)
    \/ Submit("start_new_kernel", "A", 0)
    \/ \E op \in KernelOps, k \in KernelIds : Submit(op, "A", k)
    \/ \E t \in TaskIds : stop_remote_server(t)
    \/ \E t \in TaskIds : get_kernels(t)
    \/ \E t \in TaskIds : get_kernel_info(t)
    \/ \E t \in TaskIds : terminate_kernel(t)
    \/ \E t \in TaskIds : start_new_kernel(t)
    \/ \E t \in TaskIds : restart_kernel(t)
    \/ \E t \in TaskIds : interrupt_kernel(t)

SpecKernel == InitKernel /\ [][NextKernel]_vars

\* every command on an id that was never loaded ("B") while the server of
\* "A" runs a kernel, and the synchronous reads
NextUnloaded ==
    \/ \E cfg \in ConfigIds : get_remote_server(cfg)
    \/ get_loaded_servers
    \/ \E op \in ServerOps \cup {"get_kernels", "start_new_kernel"} :
          Submit(op, "B", 0)
    \/ \E op \in KernelOps, k \in KernelIds : Submit(op, "B", k)
    \/ restart_remote_server("B")
    \/ \E t \in TaskIds : install_remote_server(t)
    \/ \E t \in TaskIds : start_remote_server(t)
    \/ \E t \in TaskIds : stop_remote_server(t)
    \/ \E t \in TaskIds : ensure_remote_server(t)
    \/ \E t \in TaskIds : get_kernels(t)
    \/ \E t \in TaskIds : get_kernel_info(t)
    \/ \E t \in TaskIds : terminate_kernel(t)
    \/ \E t \in TaskIds : start_new_kernel(t)
    \/ \E t \in TaskIds : restart_kernel(t)
    \/ \E t \in TaskIds : interrupt_kernel(t)

SpecUnloaded == InitKernel /\ [][NextUnloaded]_vars

\* loading and reloading either id, with kernels started and servers stopped
NextReload ==
    \/ \E cfg \in ConfigIds, options \in OptionSets : load_client(cfg, options)
    \/ \E cfg \in ConfigIds : load_client_from_id(cfg)
    \/ \E cfg \in ConfigIds : Submit("start_new_kernel", cfg, 0)
    \/ \E cfg \in ConfigIds : Submit("stop_remote_server", cfg, 0)
    \/ \E t \in TaskIds : start_new_kernel(t)
    \/ \E t \in TaskIds : stop_remote_server(t)

SpecReload == Init /\ [][NextReload]_vars

\* shutdown: on_close with one or two clients loaded, some of them started
NextClose ==
    \/ load_client_from_id("B")
    \/ \E cfg \in ConfigIds : Submit("start_remote_server", cfg, 0)
    \/ on_close
    \/ \E t \in TaskIds : start_remote_server(t)
    \/ \E t \in TaskIds : client_close(t)

SpecClose == InitKernel /\ [][NextClose]_vars

\* commands on "A" before, during and after on_close
NextAfterClose ==
    \/ \E op \in {"start_remote_server", "stop_remote_server", "get_kernels",
                   "start_new_kernel"} : Submit(op, "A", 0)
    \/ on_close
    \/ \E t \in TaskIds : start_remote_server(t)
    \/ \E t \in TaskIds : stop_remote_server(t)
    \/ \E t \in TaskIds : get_kernels(t)
    \/ \E t \in TaskIds : start_new_kernel(t)
    \/ \E t \in TaskIds : client_close(t)

SpecAfterClose == InitKernel /\ [][NextAfterClose]_vars

\* the future of every command dispatched so far is done
Quiet == \A t \in TaskIds : tasks[t].pc = "done"

\* every operation of the plugin: commands on "A" and kernel 1, each issued
\* when the futures of the earlier commands are done, loads of both ids, the
\* synchronous reads and on_close at any time
NextRegistry ==
    \/ get_remote_server("A")
    \/ get_loaded_servers
    \/ \E op \in ServerOps \cup {"get_kernels", "start_new_kernel"} :
          Quiet /\ Submit(op, "A", 0)
    \/ \E op \in KernelOps : Quiet /\ Submit(op, "A", 1)
    \/ Quiet /\ restart_remote_server("A")
    \/ \E cfg \in ConfigIds : load_client_from_id(cfg)
    \/ on_close
    \/ \E t \in TaskIds : install_remote_server(t)
    \/ \E t \in TaskIds : start_remote_server(t)
    \/ \E t \in TaskIds : stop_remote_server(t)
    \/ \E t \in TaskIds : ensure_remote_server(t)
    \/ \E t \in TaskIds : get_kernels(t)
    \/ \E t \in TaskIds : get_kernel_info(t)
    \/ \E t \in TaskIds : terminate_kernel(t)
    \/ \E t \in TaskIds : start_new_kernel(t)
    \/ \E t \in TaskIds : restart_kernel(t)
    \/ \E t \in TaskIds : interrupt_kernel(t)
    \/ \E t \in TaskIds : client_close(t)

SpecRegistry == InitKernel /\ [][NextRegistry]_vars

\* "A" is loaded again while a start and a start_new_kernel on it are
\* queued or in flight
NextRebind ==
    \/ load_client_from_id("A")
    \/ Submit("start_remote_server", "A", 0)
    \/ Submit("start_new_kernel", "A", 0)
    \/ \E t \in TaskIds : start_remote_server(t)
    \/ \E t \in TaskIds : start_new_kernel(t)

SpecRebind == InitLoaded /\ [][NextRebind]_vars

TypeOK ==
    /\ Loaded \subseteq ConfigIds
    /\ \A cfg \in Loaded : remote_clients[cfg] \in 1..Len(clients)
    /\ \A c \in 1..Len(clients) : clients[c].state \in States
    /\ Len(tasks) <= MaxTasks

\* ---- Helpers of the properties
InFlight(t) == tasks[t].pc = "await"

\* task t finishes in this step
Finishes(t) == tasks[t].pc = "await" /\ tasks'[t].pc = "done"

\* task t starts to run in this step
Starts(t) == tasks[t].pc = "queued" /\ tasks'[t].pc # "queued"

StatusEvents(evs) ==
    {i \in 1..Len(evs) : evs[i].sig = "sig_connection_status_changed"}

\* ---- C1
\* the two coroutines of the restart_remote_server call whose stop is task i
RestartPair(i) ==
    /\ i + 1 <= Len(tasks)
    /\ tasks[i].by = "restart" /\ tasks[i].op = "stop_remote_server"
    /\ tasks[i + 1].by = "restart" /\ tasks[i + 1].op = "start_remote_server"

\* C1: restart is atomic: at the moment a restart of a loaded endpoint
\* completes (both of its operations have finished, neither failed), the
\* lifecycle state of the endpoint is Running, whatever was interleaved.
C1_RestartEndsRunning ==
    [][\A i \in TaskIds, cfg \in Loaded :
          (/\ RestartPair(i)
           /\ cfg \in {tasks[i].config_id, tasks[i + 1].config_id}
           /\ ~(tasks[i].pc = "done" /\ tasks[i + 1].pc = "done")
           /\ tasks'[i].pc = "done" /\ tasks'[i + 1].pc = "done"
           /\ tasks'[i].err = "" /\ tasks'[i + 1].err = "")
          => clients'[remote_clients[cfg]].state = "Running"]_vars

\* ---- C2
LifecycleInFlight(cfg) ==
    {t \in TaskIds : /\ InFlight(t)
                     /\ tasks[t].op \in ServerOps
                     /\ tasks[t].config_id = cfg}

\* C2: lifecycle operations on one endpoint identifier are serialized: at
\* most one of them is in flight for a given identifier at any time.
C2_OneLifecycleInFlight ==
    \A cfg \in ConfigIds : Cardinality(LifecycleInFlight(cfg)) <= 1

\* ---- C4
\* C4: connectAndStart is idempotent: every start that succeeds leaves the
\* endpoint Running; on an endpoint that is already Running it changes no
\* state and emits nothing, otherwise the endpoint enters Running with
\* exactly one status-changed notification, which carries Running.
C4_StartIdempotent ==
    [][\A t \in TaskIds :
          (/\ tasks[t].op = "start_remote_server"
           /\ Finishes(t)
           /\ tasks'[t].err = "")
          => LET c == tasks[t].client
             IN /\ clients'[c].state = "Running"
                /\ tasks'[t].exc = ""
                /\ IF clients[c].state = "Running"
                   THEN clients' = clients /\ emitted' = <<>>
                   ELSE /\ Cardinality(StatusEvents(emitted')) = 1
                        /\ \A i \in StatusEvents(emitted') :
                              emitted'[i].args = <<"Running">>]_vars

\* two starts of "A" in succession and nothing else: both have succeeded
C4_Witness ==
    /\ Len(tasks) >= 2
    /\ \A t \in TaskIds :
          /\ tasks[t].op = "start_remote_server"
          /\ tasks[t].by = "call"
    /\ Cardinality({t \in TaskIds : tasks[t].pc = "done" /\ tasks[t].err = ""
                                    /\ tasks[t].ret = None}) >= 2
    /\ clients[1].state = "Running"

\* ---- C5
\* the remote server answered the request of task t, which finishes now
Answered(t) ==
    /\ Finishes(t)
    /\ tasks'[t].err \in {"", "KernelNotFound", "NotRunning"}

TerminatedWith(val) ==
    emitted' = <<Sig("sig_kernel_terminated", "A", <<val>>)>>

StartedNow(c) ==
    {k \in KernelIds : \E t \in TaskIds :
        /\ tasks[t].op = "start_new_kernel" /\ Finishes(t)
        /\ tasks[t].client = c /\ tasks'[t].ret = Desc(k)}

TerminatedNow(c) ==
    {k \in KernelIds : \E t \in TaskIds :
        /\ tasks[t].op = "terminate_kernel" /\ Finishes(t)
        /\ tasks[t].client = c /\ tasks[t].kernel_id = k
        /\ tasks'[t].err = ""}

Completes(t) == tasks[t].pc # "done" /\ tasks'[t].pc = "done"

\* C8: a stop that completes without error leaves the endpoint out of
\* Running with no valid kernel session; a kernel id that is not a valid
\* session never becomes one again; and a getKernelInfo of such an id, when
\* the server answers, fails with KernelNotFound, delivers no descriptor, and
\* leaves no local record of the id.
C8_InfoAfterStop ==
    [][/\ \A t \in TaskIds :
             (/\ tasks[t].op = "stop_remote_server" /\ Completes(t)
              /\ tasks[t].config_id \in Loaded /\ tasks'[t].err = "")
             => LET c == remote_clients[tasks[t].config_id]
                IN /\ clients'[c].state # "Running"
                   /\ clients'[c].kernels = {}
                   /\ clients[c].kernels \subseteq clients'[c].stale
       /\ \A c \in 1..Len(clients), k \in KernelIds :
             (k < nextKernel /\ k \notin clients[c].kernels)
             => k \notin clients'[c].kernels
       /\ \A t \in TaskIds :
             (/\ tasks[t].op = "get_kernel_info" /\ Answered(t)
              /\ tasks[t].kernel_id \notin clients[tasks[t].client].kernels)
             => LET c == tasks[t].client
                    k == tasks[t].kernel_id
                IN /\ tasks'[t].err = "KernelNotFound"
                   /\ emitted' = <<Sig("sig_kernel_info", "A",
                                       <<EmptyDict>>)>>
                   /\ k \notin clients'[c].kernels \cup clients'[c].stale]_vars

\* kernel 1 was started, the server was stopped, and the getKernelInfo that
\* followed found no kernel and evicted the stale record
C8_Witness ==
    /\ Len(tasks) = 3
    /\ tasks[1].op = "start_new_kernel" /\ tasks[1].ret = Desc(1)
    /\ tasks[2].op = "stop_remote_server" /\ tasks[2].pc = "done"
    /\ tasks[2].err = ""
    /\ tasks[3].op = "get_kernel_info" /\ tasks[3].pc = "done"
    /\ tasks[3].err = "KernelNotFound"
    /\ clients[1].state = "Stopped"
    /\ clients[1].kernels = {} /\ clients[1].stale = {}
    /\ emitted = <<Sig("sig_kernel_info", "A", <<EmptyDict>>)>>

\* ---- C3
\* C3: every registry operation on an id that is not loaded is a no-op: the
\* coroutine of a dispatched command returns None without raising, a get
\* returns None, and in both cases the mapping and every connection are
\* unchanged and no signal is emitted; submitting a command changes neither.
C3_UnloadedNoOp ==
    [][/\ \A t \in TaskIds :
             (Starts(t) /\ tasks[t].config_id \notin Loaded)
             => /\ tasks'[t].pc = "done"
                /\ tasks'[t].ret = None
                /\ tasks'[t].exc = "" /\ tasks'[t].err = ""
                /\ UNCHANGED <<remote_clients, clients>>
                /\ emitted' = <<>>
       /\ \A cfg \in ConfigIds \ Loaded :
             get_remote_server(cfg)
             => /\ returned' = None
                /\ UNCHANGED <<remote_clients, clients>>
                /\ emitted' = <<>>
       /\ Len(tasks') > Len(tasks)
             => UNCHANGED <<remote_clients, clients>> /\ emitted' = <<>>]_vars

\* "B" was never loaded; a start_new_kernel and a restart_kernel on it have
\* finished with None, and the server of "A" still runs its kernel
C3_Witness ==
    /\ Loaded = {"A"}
    /\ \E t, u \in TaskIds :
          /\ t > 1 /\ u > 1
          /\ tasks[t].op = "start_new_kernel" /\ tasks[t].pc = "done"
          /\ tasks[t].ret = None /\ tasks[t].exc = ""
          /\ tasks[u].op = "restart_kernel" /\ tasks[u].pc = "done"
          /\ tasks[u].ret = None
    /\ clients[1].state = "Running" /\ clients[1].kernels = {1}

\* ---- C7
\* the ids whose client is replaced by this step, a load
ReplacedNow == {cfg \in Loaded : remote_clients'[cfg] # remote_clients[cfg]}

\* C7: kernel sessions exist only while their connection is Running: a
\* connection that is not Running has no valid kernel session, and when a
\* load replaces a connection its kernel sessions are invalidated.
C7_SessionsOnlyWhileRunning ==
    /\ [](\A c \in 1..Len(clients) :
             clients[c].state # "Running" => clients[c].kernels = {})
    /\ [][\A cfg \in ReplacedNow :
             clients'[remote_clients[cfg]].kernels = {}]_vars

\* ---- C9
\* C9: a load on a loaded id releases the connection it replaces (its
\* transport is not left open, its kernel sessions are closed) and binds the
\* id to one new connection built from the new options alone.
C9_ReloadReleasesOld ==
    [][\A cfg \in ReplacedNow :
          /\ clients'[remote_clients[cfg]].transport # "open"
          /\ clients'[remote_clients[cfg]].kernels = {}
          /\ \E options \in OptionSets :
                clients'[remote_clients'[cfg]] = NewClient(cfg, options)]_vars

C11_ClosedFailsWithClosed ==
    [][\A t \in TaskIds :
          (Finishes(t) /\ clients[tasks[t].client].closed)
          => /\ tasks'[t].err = "Closed"
             /\ tasks'[t].exc = ""
             /\ clients' = clients]_vars

\* ---- C13
KernelStarted(evs) ==
    {i \in 1..Len(evs) : evs[i].sig = "sig_kernel_started"}

\* C13: kernel-started is emitted only by a startKernel or restartKernel
\* that succeeded, once, and carries the kernel id; a step in which no such
\* operation succeeds emits no kernel-started.
C13_StartedOnlyOnSuccess ==
    [][\A i \in KernelStarted(emitted') :
          /\ Cardinality(KernelStarted(emitted')) = 1
          /\ \E t \in TaskIds :
                /\ tasks[t].op \in {"start_new_kernel", "restart_kernel"}
                /\ Finishes(t)
                /\ tasks'[t].err = "" /\ tasks'[t].exc = ""
                /\ emitted'[i].config_id = tasks[t].config_id
                /\ emitted'[i].args[1].kind = "str"]_vars

\* ---- C15
\* C15: kernel operations on one kernel id of one connection are serialized:
\* while a terminateKernel(k) is in flight, no getKernelInfo, restartKernel or
\* interruptKernel of the same k on the same connection is in flight.
C15_SameKernelSerialized ==
    \A t, u \in TaskIds :
       (/\ InFlight(t) /\ InFlight(u)
        /\ tasks[t].op = "terminate_kernel"
        /\ tasks[u].op \in {"get_kernel_info", "restart_kernel",
                            "interrupt_kernel"}
        /\ tasks[t].client = tasks[u].client)
       => tasks[t].kernel_id # tasks[u].kernel_id

\* ---- C12
\* the state a lifecycle operation op that succeeds leaves, entered from old
\* (section 4.2)
Transition(op, old) ==
    CASE op = "_install_remote_server" ->
            IF old \in {"Unconnected", "Connected"} THEN "Installed" ELSE old
      [] op \in {"start_remote_server", "ensure_remote_server"} -> "Running"
      [] op = "stop_remote_server" ->
            IF old \in {"Running", "Stopped"} THEN "Stopped" ELSE old

\* C12: the lifecycle state of every connection is one of the five states
\* and changes only when a lifecycle operation on the connection finishes:
\* an operation that succeeds makes its defined transition, one that lost the
\* transport leaves Unconnected, and any other failure leaves the state the
\* connection held before.
C12_DefinedTransitions ==
    /\ [](\A c \in 1..Len(clients) : clients[c].state \in States)
    /\ [][/\ \A t \in TaskIds :
                (tasks[t].op \in ServerOps /\ Finishes(t))
                => LET old == clients[tasks[t].client].state
                       new == clients'[tasks[t].client].state
                       err == tasks'[t].err
                   IN new = IF err = "" THEN Transition(tasks[t].op, old)
                            ELSE IF err = "TransportFailure"
                            THEN "Unconnected"
                            ELSE old
          /\ \A c \in 1..Len(clients) :
                clients'[c].state # clients[c].state
                => \E t \in TaskIds : Finishes(t) /\ tasks[t].client = c]_vars

\* an install succeeded and a start failed with the server unavailable, the
\* failure coming last: the connection is still Installed
C12_Witness ==
    /\ Len(tasks) = 2
    /\ tasks[1].op = "_install_remote_server" /\ tasks[1].pc = "done"
    /\ tasks[1].err = ""
    /\ tasks[2].op = "start_remote_server" /\ tasks[2].pc = "done"
    /\ tasks[2].err = "ServerUnavailable"
    /\ emitted = <<>>
    /\ clients[1].state = "Installed" /\ clients[1].transport = "open"

\* ---- C14
\* C14: startKernel ensures the server is Running before it asks for the
\* kernel: a success leaves the connection Running with the new session; a
\* failure is ServerUnavailable or KernelStartFailed and nothing else, and
\* creates no kernel session.
C14_StartKernelFailures ==
    [][\A t \in TaskIds :
          (tasks[t].op = "start_new_kernel" /\ Finishes(t))
          => LET old == clients[tasks[t].client]
                 new == clients'[tasks[t].client]
             IN /\ tasks'[t].exc = ""
                /\ tasks'[t].err = ""
                      => /\ new.state = "Running"
                         /\ tasks'[t].ret = Desc(nextKernel)
                         /\ new.kernels \ old.kernels = {nextKernel}
                /\ tasks'[t].err # ""
                      => /\ tasks'[t].err \in {"ServerUnavailable",
                                                "KernelStartFailed"}
                         /\ new.kernels \subseteq old.kernels
                         /\ tasks'[t].ret = None]_vars

\* ---- C16
KernelTerminated(evs) ==
    {i \in 1..Len(evs) : evs[i].sig = "sig_kernel_terminated"}

\* C16: interruptKernel changes no kernel session and no lifecycle state:
\* when the server answers, with success or with KernelNotFound, every
\* connection is as before and nothing is emitted, and the status returned
\* tells which of the two it was; in no case does an interrupt emit
\* kernel-started or kernel-terminated.
C16_InterruptKeepsKernels ==
    [][\A t \in TaskIds :
          (tasks[t].op = "interrupt_kernel" /\ Finishes(t))
          => /\ KernelStarted(emitted') = {}
             /\ KernelTerminated(emitted') = {}
             /\ tasks'[t].exc = ""
             /\ Answered(t)
                   => /\ clients' = clients
                      /\ emitted' = <<>>
                      /\ IF Known(clients[tasks[t].client], tasks[t].kernel_id)
                         THEN tasks'[t].err = "" /\ tasks'[t].ret = True
                         ELSE /\ tasks'[t].err = "KernelNotFound"
                              /\ tasks'[t].ret = False]_vars

\* kernel 1 runs; an interrupt of kernel 1 succeeded, an interrupt of the
\* unknown kernel 2 failed, and kernel 1 is still the only session
C16_Witness ==
    /\ Len(tasks) = 3
    /\ \A t \in {2, 3} :
          tasks[t].op = "interrupt_kernel" /\ tasks[t].pc = "done"
    /\ tasks[2].err = "" /\ tasks[2].ret = True
    /\ tasks[3].err = "KernelNotFound" /\ tasks[3].ret = False
    /\ clients[1].state = "Running" /\ clients[1].kernels = {1}

\* ---- C17
\* C17: a stop of a connection whose server is not Running succeeds, changes
\* nothing and emits nothing; a stop of a Running server that succeeds
\* leaves it Stopped and emits one status-changed, carrying Stopped.
C17_StopNotRunningNoOp ==
    [][\A t \in TaskIds :
          (tasks[t].op = "stop_remote_server" /\ Finishes(t))
          => LET c == tasks[t].client
             IN /\ tasks'[t].exc = "" /\ tasks'[t].ret = None
                /\ clients[c].state # "Running"
                      => /\ tasks'[t].err = ""
                         /\ clients' = clients
                         /\ emitted' = <<>>
                /\ (clients[c].state = "Running" /\ tasks'[t].err = "")
                      => /\ clients'[c].state = "Stopped"
                         /\ emitted' = <<StatusChanged(clients[c],
                                                       "Stopped")>>]_vars

\* two stops and a start have succeeded and the server is Stopped: one stop
\* found the server Running, the other found it not Running
C17_Witness ==
    /\ Len(tasks) = 3
    /\ \A t \in TaskIds : tasks[t].pc = "done" /\ tasks[t].err = ""
    /\ tasks[1].op = "stop_remote_server"
    /\ tasks[2].op = "start_remote_server"
    /\ tasks[3].op = "stop_remote_server"
    /\ \A t \in TaskIds : tasks[t].by = "call"
    /\ clients[1].state = "Stopped"

\* ---- C18
\* C18: the mapping from id to connection changes only when a load
\* constructs a connection, and then only at the id loaded, which is bound
\* to the new connection; every other operation, on_close included, leaves
\* the loaded ids and the connection bound to each as they were, so when
\* on_close returns every id is still loaded, bound to a closed connection.
C18_OnlyLoadChangesMapping ==
    [][/\ Len(clients') = Len(clients) => remote_clients' = remote_clients
       /\ Len(clients') # Len(clients)
             => \E cfg \in ConfigIds :
                   /\ Loaded' = Loaded \cup {cfg}
                   /\ remote_clients'[cfg] = Len(clients')
                   /\ \A other \in Loaded \ {cfg} :
                         remote_clients'[other] = remote_clients[other]
                   /\ tasks' = tasks
       /\ (~Idle /\ Idle')
             => /\ Loaded' = Loaded /\ Loaded # {}
                /\ \A cfg \in Loaded' :
                      clients'[remote_clients'[cfg]].closed]_vars

\* both ids are loaded, on_close has closed both connections and returned,
\* and the get_loaded_servers that followed still lists both ids
C18_Witness ==
    /\ Idle
    /\ Loaded = {"A", "B"}
    /\ \A cfg \in Loaded : clients[remote_clients[cfg]].closed
    /\ \E t \in TaskIds : tasks[t].op = "close" /\ tasks[t].pc = "done"
    /\ returned = Keys({"A", "B"})

\* ---- C19
\* C19: a dispatched operation reads the connection of its id when its
\* coroutine starts to run, not when it is submitted: it takes the connection
\* bound to the id at that moment; from then on it keeps that connection,
\* whatever is loaded meanwhile, and when it finishes it changes that
\* connection and no other.
C19_ResolvedWhenStarted ==
    [][/\ \A t \in TaskIds :
             (Starts(t) /\ tasks[t].config_id \in Loaded)
             => /\ tasks'[t].pc = "await"
                /\ tasks'[t].client = remote_clients[tasks[t].config_id]
       /\ \A t \in TaskIds :
             (InFlight(t) /\ ~Finishes(t))
             => tasks'[t].pc = "await" /\ tasks'[t].client = tasks[t].client
       /\ \A t \in TaskIds :
             Finishes(t)
             => \A c \in 1..Len(clients) :
                   c # tasks[t].client => clients'[c] = clients[c]]_vars

\* two operations on "A" are in flight: the later one resolved the connection
\* that a load has since replaced, the earlier one started after the load
\* and runs against the new connection
C19_Witness ==
    \E t, u \in TaskIds :
       /\ u < t
       /\ InFlight(t) /\ InFlight(u)
       /\ tasks[t].config_id = "A" /\ tasks[u].config_id = "A"
       /\ tasks[u].client = remote_clients["A"]
       /\ tasks[t].client # remote_clients["A"]
       /\ \A cfg \in Loaded : remote_clients[cfg] # tasks[t].client
====
